---- MODULE Spec2Model ----
(***************************************************************************)
(* network_exporter: the ICMP probe scheduler (target/target_ping.go) and  *)
(* the configuration reload (config/config.go).                            *)
(*                                                                         *)
(* Strings of the program are sequences of one-character strings, so that  *)
(* the regular expression of ReloadConfig, strings.Split and               *)
(* strings.EqualFold are computed and not assumed.                         *)
(***************************************************************************)
EXTENDS Integers, Sequences, FiniteSets, TLC

\* ------------------------------------------------------------------ bounds

\* Probe executions one scheduler launches in a run of the model.
MaxLaunch == 4

\* Target records of one configuration file.
MaxTargets == 2

\* ReloadConfig calls in a run of the model.
MaxReloads == 2

\* ------------------------------------------------------- program constants

\* target_ping.go:15
MaxConcurrentJobs == 3

\* ------------------------------------------------------------------- state

VARIABLES
    startupDelay,   \* NewPing's startupDelay argument (0: none)
    runPc,          \* position of the goroutine PING.run
    ticker,         \* "none" | "running" | "stopped": the time.Ticker of run
    waitChan,       \* number of elements in the buffered channel waitChan
    launched,       \* number of probe goroutines run has started
    jobPc,          \* position of each probe goroutine (go func of run)
    objs,           \* the *ping.PingResult objects: 0 is NewPing's, j is job j's data
    result,         \* t.result: the object the scheduler points to
    mu,             \* the RWMutex of PING: 0 free, j write-locked by job j
    stop,           \* TRUE when the channel t.stop is closed
    stopPc,         \* position of the caller of Stop()
    wg,             \* counter of t.wg
    snap,           \* value of the first Compute() made after Stop() returned
    window,         \* what ping.Ping returned to each probe goroutine
    icmpID,         \* the counter of the shared common.IcmpID
    issued,         \* the identifiers icmpID.Get() has returned, in order
    delayBy,        \* how the startup delay ended: "none" | "elapsed" | "stopped"
    panic,          \* "none", or the panic that ended the process
    stop2Pc,        \* position of the caller of a second Stop()
    confFile,       \* content of the configuration file on disk
    Cfg,            \* SafeConfig.Cfg
    c,              \* the local c of the last ReloadConfig call, after defaults.Set
    err,            \* outcome of the last ReloadConfig call
    targets,        \* c.Targets of the last ReloadConfig call after the remap
    reloads         \* number of ReloadConfig calls made

schedVars == <<startupDelay, runPc, ticker, waitChan, launched, jobPc, objs,
               result, mu, stop, stopPc, wg, snap,
               window, icmpID, issued, delayBy, panic, stop2Pc>>

confVars == <<confFile, Cfg, c, err, targets, reloads>>

vars == <<startupDelay, runPc, ticker, waitChan, launched, jobPc, objs,
          result, mu, stop, stopPc, wg, snap,
          window, icmpID, issued, delayBy, panic, stop2Pc,
          confFile, Cfg, c, err, targets, reloads>>

\* A value of no object / no configuration.
None == [none |-> TRUE]

\* =========================================================================
\* PING scheduler (target/target_ping.go)
\* =========================================================================

Jobs == 1..MaxLaunch

\* The zero ping.PingResult of NewPing.
ZeroResult == [SntSummary |-> 0, SntFailSummary |-> 0, SntTimeSummary |-> 0,
               Success |-> FALSE]

\* What ping.Ping can return for one cycle of `count` packets: all answered,
\* or all lost (with an error, which ping() only logs).
ProbeOutcomes ==
    { [SntSummary |-> 1, SntFailSummary |-> 0, SntTimeSummary |-> 2, Success |-> TRUE],
      [SntSummary |-> 1, SntFailSummary |-> 1, SntTimeSummary |-> 3, Success |-> FALSE] }

\* Probe goroutines launched and not yet past their gate release.
InFlight == {j \in Jobs : jobPc[j] \notin {"idle", "done"}}

\* The largest identifier of the shared allocator: the 16-bit width of the
\* protocol identifier.
MaxIcmpID == 65535

\* common.IcmpID.Get: the counter advances by one and wraps to the start of
\* the range after MaxIcmpID; the new value is returned.
IcmpGet(n) == (n + 1) % (MaxIcmpID + 1)

\* The allocator is shared by all schedulers of the process: when this
\* scheduler is created the others have used it, here up to two requests
\* before the end of the range.
IcmpStart == MaxIcmpID - 2

\* NewPing without line 54: the result field is left nil.
InitPingNilResult ==
    /\ startupDelay \in {0, 1}
    /\ runPc = "start"
    /\ ticker = "none"
    /\ waitChan = 0
    /\ launched = 0
    /\ jobPc = [j \in Jobs |-> "idle"]
    /\ objs = [o \in 0..MaxLaunch |-> None]
    /\ result = 0
    /\ mu = 0
    /\ stop = FALSE
    /\ stopPc = "idle"
    /\ wg = 1
    /\ snap = None
    /\ window = [j \in Jobs |-> None]
    /\ icmpID = IcmpStart
    /\ issued = <<>>
    /\ delayBy = "none"
    /\ panic = "none"
    /\ stop2Pc = "idle"

InitPing ==
    /\ startupDelay \in {0, 1}
    /\ runPc = "start"
    /\ ticker = "none"
    /\ waitChan = 0
    /\ launched = 0
    /\ jobPc = [j \in Jobs |-> "idle"]
    /\ objs = [o \in 0..MaxLaunch |-> IF o = 0 THEN ZeroResult ELSE None]
    /\ result = 0
    /\ mu = 0
    /\ stop = FALSE
    /\ stopPc = "idle"
    /\ wg = 1
    /\ snap = None
    /\ window = [j \in Jobs |-> None]
    /\ icmpID = IcmpStart
    /\ issued = <<>>
    /\ delayBy = "none"
    /\ panic = "none"
    /\ stop2Pc = "idle"

\* run, line 62: the startup delay is waited for only when it is positive;
\* lines 69-70 otherwise.
RunStart ==
    /\ panic = "none"
    /\ runPc = "start"
    /\ IF startupDelay > 0
         THEN /\ runPc' = "delay"
              /\ ticker' = ticker
         ELSE /\ runPc' = "loop"
              /\ ticker' = "running"
    /\ UNCHANGED <<startupDelay, waitChan, launched, jobPc, objs, result, mu,
                   stop, stopPc, wg, snap>>
    /\ UNCHANGED <<window, icmpID, issued, delayBy, panic, stop2Pc>>
    /\ UNCHANGED confVars

\* run, lines 63-64 and 69-70: the startup delay elapses.
RunDelayElapsed ==
    /\ panic = "none"
    /\ runPc = "delay"
    /\ runPc' = "loop"
    /\ ticker' = "running"
    /\ delayBy' = "elapsed"
    /\ UNCHANGED <<startupDelay, waitChan, launched, jobPc, objs, result, mu,
                   stop, stopPc, wg, snap>>
    /\ UNCHANGED <<window, icmpID, issued, panic, stop2Pc>>
    /\ UNCHANGED confVars

\* run, lines 63, 65 and 69-70: the closed stop channel ends the startup delay.
RunDelayStopped ==
    /\ panic = "none"
    /\ runPc = "delay"
    /\ stop
    /\ runPc' = "loop"
    /\ ticker' = "running"
    /\ delayBy' = "stopped"
    /\ UNCHANGED <<startupDelay, waitChan, launched, jobPc, objs, result, mu,
                   stop, stopPc, wg, snap>>
    /\ UNCHANGED <<window, icmpID, issued, panic, stop2Pc>>
    /\ UNCHANGED confVars

\* run, lines 72-73: the select takes the closed stop channel.
RunSelectStop ==
    /\ panic = "none"
    /\ runPc = "loop"
    /\ stop
    /\ runPc' = "stopping"
    /\ UNCHANGED <<startupDelay, ticker, waitChan, launched, jobPc, objs, result,
                   mu, stop, stopPc, wg, snap>>
    /\ UNCHANGED <<window, icmpID, issued, delayBy, panic, stop2Pc>>
    /\ UNCHANGED confVars

\* run, lines 72 and 77: the select takes a tick. A tick may be pending
\* whenever the ticker runs, also when the stop channel is closed too: select
\* then picks either case.
RunSelectTick ==
    /\ panic = "none"
    /\ runPc = "loop"
    /\ ticker = "running"
    /\ launched < MaxLaunch
    /\ runPc' = "acquire"
    /\ UNCHANGED <<startupDelay, ticker, waitChan, launched, jobPc, objs, result,
                   mu, stop, stopPc, wg, snap>>
    /\ UNCHANGED <<window, icmpID, issued, delayBy, panic, stop2Pc>>
    /\ UNCHANGED confVars

\* run, line 78 with a channel that never blocks the send.
RunAcquireUngated ==
    /\ panic = "none"
    /\ runPc = "acquire"
    /\ waitChan' = waitChan + 1
    /\ runPc' = "spawn"
    /\ UNCHANGED <<startupDelay, ticker, launched, jobPc, objs, result, mu, stop,
                   stopPc, wg, snap>>
    /\ UNCHANGED <<window, icmpID, issued, delayBy, panic, stop2Pc>>
    /\ UNCHANGED confVars

\* run, line 78: waitChan <- struct{}{} blocks while the channel holds
\* MaxConcurrentJobs elements.
RunAcquire ==
    /\ panic = "none"
    /\ runPc = "acquire"
    /\ waitChan < MaxConcurrentJobs
    /\ waitChan' = waitChan + 1
    /\ runPc' = "spawn"
    /\ UNCHANGED <<startupDelay, ticker, launched, jobPc, objs, result, mu, stop,
                   stopPc, wg, snap>>
    /\ UNCHANGED <<window, icmpID, issued, delayBy, panic, stop2Pc>>
    /\ UNCHANGED confVars

\* run, lines 79-82: go func() { t.ping(); <-waitChan }().
RunSpawn ==
    /\ panic = "none"
    /\ runPc = "spawn"
    /\ launched' = launched + 1
    /\ jobPc' = [jobPc EXCEPT ![launched + 1] = "ping"]
    /\ runPc' = "loop"
    /\ UNCHANGED <<startupDelay, ticker, waitChan, objs, result, mu, stop, stopPc,
                   wg, snap>>
    /\ UNCHANGED <<window, icmpID, issued, delayBy, panic, stop2Pc>>
    /\ UNCHANGED confVars

\* run, line 74: tick.Stop().
RunStopTicker ==
    /\ panic = "none"
    /\ runPc = "stopping"
    /\ ticker' = "stopped"
    /\ runPc' = "signal"
    /\ UNCHANGED <<startupDelay, waitChan, launched, jobPc, objs, result, mu, stop,
                   stopPc, wg, snap>>
    /\ UNCHANGED <<window, icmpID, issued, delayBy, panic, stop2Pc>>
    /\ UNCHANGED confVars

\* run, lines 75-76: t.wg.Done(); return.
RunDone ==
    /\ panic = "none"
    /\ runPc = "signal"
    /\ wg' = wg - 1
    /\ runPc' = "exited"
    /\ UNCHANGED <<startupDelay, ticker, waitChan, launched, jobPc, objs, result,
                   mu, stop, stopPc, snap>>
    /\ UNCHANGED <<window, icmpID, issued, delayBy, panic, stop2Pc>>
    /\ UNCHANGED confVars

\* ping, lines 94-98 with an identifier read without advancing the allocator.
JobPingSameID(j) ==
    /\ panic = "none"
    /\ jobPc[j] = "ping"
    /\ \E data \in ProbeOutcomes :
          /\ objs' = [objs EXCEPT ![j] = data]
          /\ window' = [window EXCEPT ![j] = data]
    /\ issued' = Append(issued, icmpID)
    /\ jobPc' = [jobPc EXCEPT ![j] = "lock"]
    /\ UNCHANGED <<startupDelay, runPc, ticker, waitChan, launched, result, mu,
                   stop, stopPc, wg, snap>>
    /\ UNCHANGED <<icmpID, delayBy, panic, stop2Pc>>
    /\ UNCHANGED confVars

\* ping, lines 94-98: the cycle takes its identifier from the shared
\* allocator, and ping.Ping returns the cycle's own result object; an error is
\* logged and nothing else.
JobPing(j) ==
    /\ panic = "none"
    /\ jobPc[j] = "ping"
    /\ \E data \in ProbeOutcomes :
          /\ objs' = [objs EXCEPT ![j] = data]
          /\ window' = [window EXCEPT ![j] = data]
    /\ icmpID' = IcmpGet(icmpID)
    /\ issued' = Append(issued, IcmpGet(icmpID))
    /\ jobPc' = [jobPc EXCEPT ![j] = "lock"]
    /\ UNCHANGED <<startupDelay, runPc, ticker, waitChan, launched, result, mu,
                   stop, stopPc, wg, snap>>
    /\ UNCHANGED <<delayBy, panic, stop2Pc>>
    /\ UNCHANGED confVars

\* ping, lines 94-98 when ping.Ping returns an error and no result: data is
\* nil, the error is logged, and ping() goes on to line 100.
JobPingNil(j) ==
    /\ panic = "none"
    /\ jobPc[j] = "ping"
    /\ icmpID' = IcmpGet(icmpID)
    /\ issued' = Append(issued, IcmpGet(icmpID))
    /\ jobPc' = [jobPc EXCEPT ![j] = "lock"]
    /\ UNCHANGED <<startupDelay, runPc, ticker, waitChan, launched, objs, result,
                   mu, stop, stopPc, wg, snap>>
    /\ UNCHANGED <<window, delayBy, panic, stop2Pc>>
    /\ UNCHANGED confVars

\* ping, line 100: t.Lock().
JobLock(j) ==
    /\ panic = "none"
    /\ jobPc[j] = "lock"
    /\ mu = 0
    /\ mu' = j
    /\ jobPc' = [jobPc EXCEPT ![j] = "merge"]
    /\ UNCHANGED <<startupDelay, runPc, ticker, waitChan, launched, objs, result,
                   stop, stopPc, wg, snap>>
    /\ UNCHANGED <<window, icmpID, issued, delayBy, panic, stop2Pc>>
    /\ UNCHANGED confVars

\* ping, lines 102-105 done the other way round: the counters of the new
\* object are added onto the stored object, which stays the stored result.
JobMergeInPlace(j) ==
    /\ panic = "none"
    /\ jobPc[j] = "merge"
    /\ objs[j] # None
    /\ objs' = [objs EXCEPT ![result] =
                  [@ EXCEPT !.SntSummary = @ + objs[j].SntSummary,
                            !.SntFailSummary = @ + objs[j].SntFailSummary,
                            !.SntTimeSummary = @ + objs[j].SntTimeSummary]]
    /\ jobPc' = [jobPc EXCEPT ![j] = "unlock"]
    /\ UNCHANGED <<startupDelay, runPc, ticker, waitChan, launched, result, mu,
                   stop, stopPc, wg, snap>>
    /\ UNCHANGED <<window, icmpID, issued, delayBy, panic, stop2Pc>>
    /\ UNCHANGED confVars

\* ping, line 105 alone: the new object is stored without the additions.
JobMergeNoAdd(j) ==
    /\ panic = "none"
    /\ jobPc[j] = "merge"
    /\ result' = j
    /\ jobPc' = [jobPc EXCEPT ![j] = "unlock"]
    /\ UNCHANGED <<startupDelay, runPc, ticker, waitChan, launched, objs, mu, stop,
                   stopPc, wg, snap>>
    /\ UNCHANGED <<window, icmpID, issued, delayBy, panic, stop2Pc>>
    /\ UNCHANGED confVars

\* ping, line 102 with data nil: data.SntSummary dereferences a nil pointer,
\* and the panic of a goroutine ends the process.
JobMergePanic(j) ==
    /\ panic = "none"
    /\ jobPc[j] = "merge"
    /\ objs[j] = None
    /\ panic' = "nil pointer dereference"
    /\ UNCHANGED <<startupDelay, runPc, ticker, waitChan, launched, jobPc, objs,
                   result, mu, stop, stopPc, wg, snap>>
    /\ UNCHANGED <<window, icmpID, issued, delayBy, stop2Pc>>
    /\ UNCHANGED confVars

\* ping, lines 102-105, under the write lock: the stored counters are added
\* onto the new object, which then becomes the stored result.
JobMerge(j) ==
    /\ panic = "none"
    /\ jobPc[j] = "merge"
    /\ objs[j] # None
    /\ objs' = [objs EXCEPT ![j] =
                  [@ EXCEPT !.SntSummary = @ + objs[result].SntSummary,
                            !.SntFailSummary = @ + objs[result].SntFailSummary,
                            !.SntTimeSummary = @ + objs[result].SntTimeSummary]]
    /\ result' = j
    /\ jobPc' = [jobPc EXCEPT ![j] = "unlock"]
    /\ UNCHANGED <<startupDelay, runPc, ticker, waitChan, launched, mu, stop,
                   stopPc, wg, snap>>
    /\ UNCHANGED <<window, icmpID, issued, delayBy, panic, stop2Pc>>
    /\ UNCHANGED confVars

\* ping, lines 107-112 and the deferred t.Unlock() of line 101.
JobUnlock(j) ==
    /\ panic = "none"
    /\ jobPc[j] = "unlock"
    /\ mu' = 0
    /\ jobPc' = [jobPc EXCEPT ![j] = "release"]
    /\ UNCHANGED <<startupDelay, runPc, ticker, waitChan, launched, objs, result,
                   stop, stopPc, wg, snap>>
    /\ UNCHANGED <<window, icmpID, issued, delayBy, panic, stop2Pc>>
    /\ UNCHANGED confVars

\* run, line 81: <-waitChan.
JobRelease(j) ==
    /\ panic = "none"
    /\ jobPc[j] = "release"
    /\ waitChan' = waitChan - 1
    /\ jobPc' = [jobPc EXCEPT ![j] = "done"]
    /\ UNCHANGED <<startupDelay, runPc, ticker, launched, objs, result, mu, stop,
                   stopPc, wg, snap>>
    /\ UNCHANGED <<window, icmpID, issued, delayBy, panic, stop2Pc>>
    /\ UNCHANGED confVars

\* Stop, line 89: close(t.stop).
StopClose ==
    /\ panic = "none"
    /\ stopPc = "idle"
    /\ stop' = TRUE
    /\ stopPc' = "wait"
    /\ UNCHANGED <<startupDelay, runPc, ticker, waitChan, launched, jobPc, objs,
                   result, mu, wg, snap>>
    /\ UNCHANGED <<window, icmpID, issued, delayBy, panic, stop2Pc>>
    /\ UNCHANGED confVars

\* Stop, line 90 without the wait.
StopReturnNoWait ==
    /\ panic = "none"
    /\ stopPc = "wait"
    /\ stopPc' = "returned"
    /\ UNCHANGED <<startupDelay, runPc, ticker, waitChan, launched, jobPc, objs,
                   result, mu, stop, wg, snap>>
    /\ UNCHANGED <<window, icmpID, issued, delayBy, panic, stop2Pc>>
    /\ UNCHANGED confVars

\* Stop, lines 90-91: t.wg.Wait() returns when the counter is zero.
StopReturn ==
    /\ panic = "none"
    /\ stopPc = "wait"
    /\ wg = 0
    /\ stopPc' = "returned"
    /\ UNCHANGED <<startupDelay, runPc, ticker, waitChan, launched, jobPc, objs,
                   result, mu, stop, wg, snap>>
    /\ UNCHANGED <<window, icmpID, issued, delayBy, panic, stop2Pc>>
    /\ UNCHANGED confVars

\* Stop, line 89 of a second call with the close of a closed channel taken as
\* a no-operation: the call goes on to line 90.
StopAgainNoPanic ==
    /\ panic = "none"
    /\ stop2Pc = "idle"
    /\ stopPc # "idle"
    /\ stop' = TRUE
    /\ stop2Pc' = "wait"
    /\ UNCHANGED <<startupDelay, runPc, ticker, waitChan, launched, jobPc, objs,
                   result, mu, stopPc, wg, snap>>
    /\ UNCHANGED <<window, icmpID, issued, delayBy, panic>>
    /\ UNCHANGED confVars

\* Stop, lines 88-89, called a second time, while the first call waits or
\* after it has returned: close(t.stop) panics when the channel is closed,
\* which ends the process, and closes it otherwise.
StopAgain ==
    /\ panic = "none"
    /\ stop2Pc = "idle"
    /\ stopPc # "idle"
    /\ IF stop
         THEN /\ panic' = "close of closed channel"
              /\ stop2Pc' = "panicked"
              /\ stop' = stop
         ELSE /\ panic' = panic
              /\ stop2Pc' = "wait"
              /\ stop' = TRUE
    /\ UNCHANGED <<startupDelay, runPc, ticker, waitChan, launched, jobPc, objs,
                   result, mu, stopPc, wg, snap>>
    /\ UNCHANGED <<window, icmpID, issued, delayBy>>
    /\ UNCHANGED confVars

\* Compute, lines 119-122: what a call returns in the current state, nil when
\* the stored pointer is nil and the stored object otherwise.
ComputeResult == IF objs[result] = None THEN None ELSE objs[result]

\* Compute, lines 115-123: under the read lock, the stored object is returned.
\* The first call made after Stop() has returned also keeps the value read.
Compute ==
    /\ panic = "none"
    /\ mu = 0
    /\ snap' = IF stopPc = "returned" /\ snap = None THEN ComputeResult ELSE snap
    /\ UNCHANGED <<startupDelay, runPc, ticker, waitChan, launched, jobPc, objs,
                   result, mu, stop, stopPc, wg>>
    /\ UNCHANGED <<window, icmpID, issued, delayBy, panic, stop2Pc>>
    /\ UNCHANGED confVars

\* =========================================================================
\* Configuration reload (config/config.go)
\* =========================================================================

\* ----------------------------------------------------------------- strings

sICMP == <<"I", "C", "M", "P">>
sMTR == <<"M", "T", "R">>
sICMPMTR == <<"I", "C", "M", "P", "+", "M", "T", "R">>
sTCP == <<"T", "C", "P">>
sHTTPGet == <<"H", "T", "T", "P", "G", "e", "t">>

\* The pattern p occurs in s at position i.
SubAt(s, i, p) ==
    /\ i >= 1
    /\ i + Len(p) - 1 <= Len(s)
    /\ \A k \in 1..Len(p) : s[i + k - 1] = p[k]

HasPrefix(s, p) == SubAt(s, 1, p)

HasSuffix(s, p) == SubAt(s, Len(s) - Len(p) + 1, p)

Contains(s, p) == \E i \in 1..(Len(s) + 1) : SubAt(s, i, p)

\* The alternative ICMP+MTR of the pattern: "ICM", one or more "P", "MTR"
\* (+ is the repetition operator, not a character).
MatchesICMPlusMTR(s) ==
    \E i \in 1..Len(s), n \in 1..Len(s) :
        /\ SubAt(s, i, <<"I", "C", "M">>)
        /\ \A k \in 1..n : i + 2 + k <= Len(s) /\ s[i + 2 + k] = "P"
        /\ SubAt(s, i + 3 + n, sMTR)

\* regexp.MustCompile("^ICMP|MTR|ICMP+MTR|TCP|HTTPGet$").MatchString(s):
\* alternation binds weakest, so ^ belongs to the first alternative only and
\* $ to the last only, and MatchString searches anywhere in s.
ReMatchString(s) ==
    \/ HasPrefix(s, sICMP)
    \/ Contains(s, sMTR)
    \/ MatchesICMPlusMTR(s)
    \/ Contains(s, sTCP)
    \/ HasSuffix(s, sHTTPGet)

\* strings.Split(s, sep) for a one-character separator.
RECURSIVE SplitFrom(_, _, _, _)
SplitFrom(s, sep, i, cur) ==
    IF i > Len(s) THEN <<cur>>
    ELSE IF s[i] = sep THEN <<cur>> \o SplitFrom(s, sep, i + 1, <<>>)
    ELSE SplitFrom(s, sep, i + 1, Append(cur, s[i]))

Split(s, sep) == SplitFrom(s, sep, 1, <<>>)

\* Simple case folding of the letters that occur in protocol names.
Fold(ch) ==
    CASE ch = "t" -> "T"
      [] ch = "c" -> "C"
      [] ch = "p" -> "P"
      [] ch = "u" -> "U"
      [] ch = "d" -> "D"
      [] OTHER -> ch

\* strings.EqualFold(a, b).
EqualFold(a, b) ==
    /\ Len(a) = Len(b)
    /\ \A k \in 1..Len(a) : Fold(a[k]) = Fold(b[k])

\* strings.Split(t.Host, ".")[1][1:], the protocol of an SRV name.
SrvProto(host) == Tail(Split(host, ".")[2])

\* ------------------------------------------------------------- environment

\* os.Hostname() of the running exporter, and another runner's.
hostname == <<"h">>
otherHost == <<"o">>

\* common.SrvRecordCheck: a name of the form _service._proto.domain.
SrvRecordCheck(host) ==
    LET parts == Split(host, ".") IN
    /\ Len(parts) >= 2
    /\ HasPrefix(parts[1], <<"_">>)
    /\ HasPrefix(parts[2], <<"_">>)

hostLiteral == <<"d", "1">>
hostSrvTcp == <<"_", "s", ".", "_", "t", "c", "p", ".", "x">>
hostSrvUdp == <<"_", "s", ".", "_", "u", "d", "p", ".", "x">>
hostSrvBad == <<"_", "e", ".", "_", "t", "c", "p", ".", "x">>

\* common.SrvRecordHosts: the name server's answer, fixed per name: two
\* hosts, one host, or a lookup error.
SrvRecordHosts(host) ==
    CASE host = hostSrvTcp -> [err |-> FALSE, hosts |-> << <<"s", "1">>, <<"s", "2">> >>]
      [] host = hostSrvUdp -> [err |-> FALSE, hosts |-> << <<"s", "1">> >>]
      [] OTHER -> [err |-> TRUE, hosts |-> <<>>]

\* ------------------------------------------------------------------ inputs

ValidTypes == {sICMP, sMTR, sICMPMTR, sTCP, sHTTPGet}

\* Type strings a file may give: the five, and two that are none of them.
TypeStrings == ValidTypes \cup {sICMP \o <<"6">>, <<"U", "D", "P">>}

\* The probe field: omitted (a nil slice) or a list, which may be empty.
NilProbe == [nil |-> TRUE, list |-> <<>>]

ProbeList(l) == [nil |-> FALSE, list |-> l]

ProbeLists ==
    { ProbeList(<<>>), ProbeList(<<hostname>>), ProbeList(<<otherHost>>),
      ProbeList(<<hostname, hostname>>), ProbeList(<<otherHost, hostname>>) }

Target(name, host, type, probe, labels) ==
    [Name |-> name, Host |-> host, Type |-> type, Probe |-> probe, Labels |-> labels]

\* Target records of a file. Proxy and SourceIp are copied with the record,
\* as Labels are, and are left out.
TargetRecs ==
    { Target(<<"a">>, hostLiteral, ty, NilProbe, "none") : ty \in TypeStrings }
    \cup
    { Target(<<"b">>, hostLiteral, ty, NilProbe, "none") :
        ty \in {sICMP, sICMPMTR, sTCP} }
    \cup
    { Target(<<"a">>, h, ty, NilProbe, "env=prod") :
        h \in {hostSrvTcp, hostSrvUdp, hostSrvBad}, ty \in {sICMP, sTCP} }
    \cup
    { Target(<<"a">>, hostLiteral, sICMP, pr, "none") : pr \in ProbeLists }
    \cup
    { Target(<<"a">>, hostSrvTcp, sICMP, pr, "none") :
        pr \in { ProbeList(<<>>), ProbeList(<<hostname, hostname>>),
                 ProbeList(<<otherHost, hostname>>) } }

TargetLists(n) == UNION { [1..k -> TargetRecs] : k \in 0..n }

\* The probe sections of a file; 0 is a field the file omits (or gives as 0).
Params(icmp, mtr, tcp, http, hops, count) ==
    [ICMP |-> [Interval |-> icmp, Timeout |-> 0, Count |-> 0],
     MTR |-> [Interval |-> mtr, Timeout |-> 0, MaxHops |-> hops, Count |-> count],
     TCP |-> [Interval |-> tcp, Timeout |-> 0],
     HTTPGet |-> [Interval |-> http, Timeout |-> 0]]

IntervalValues == {-1, 0, 7}

MaxHopsValues == {-1, 0, 30, 65500, 65501, 70000}

CountValues == {-1, 0, 65500, 65501}

ParamSets ==
    { Params(i, m, t, h, 0, 0) :
        i \in IntervalValues, m \in IntervalValues,
        t \in IntervalValues, h \in IntervalValues }
    \cup
    { Params(0, 0, 0, 0, hops, n) : hops \in MaxHopsValues, n \in CountValues }

Yaml(p, ts) ==
    [kind |-> "yaml", ICMP |-> p.ICMP, MTR |-> p.MTR, TCP |-> p.TCP,
     HTTPGet |-> p.HTTPGet, Targets |-> ts]

Unreadable == [kind |-> "unreadable"]

Unparsable == [kind |-> "unparsable"]

\* The files a run starts from: every target list with the default
\* sections, and every section variant with at most one target.
Files ==
    {Unreadable, Unparsable}
    \cup { Yaml(Params(0, 0, 0, 0, 0, 0), ts) : ts \in TargetLists(MaxTargets) }
    \cup { Yaml(p, ts) : p \in ParamSets, ts \in TargetLists(1) }

\* The files an operator installs between two reloads.
Rewrites ==
    LET ta == Target(<<"a">>, hostLiteral, sICMP, NilProbe, "none")
        tb == Target(<<"b">>, hostLiteral, sTCP, NilProbe, "none")
        dflt == Params(0, 0, 0, 0, 0, 0)
    IN  { Unreadable, Unparsable,
          Yaml(dflt, <<ta>>),
          Yaml(Params(7, 7, 7, 7, 30, 0), <<tb>>),
          Yaml(dflt, <<ta, ta>>),
          Yaml(Params(0, -1, 0, 0, 0, 0), <<ta>>),
          Yaml(Params(0, 0, 0, 0, 70000, 0), <<ta>>),
          Yaml(Params(0, 0, 0, 0, 0, -1), <<tb>>) }

\* ---------------------------------------------------------- ReloadConfig

\* os.Open and decoder.Decode, lines 99-109.
Decode(file) ==
    CASE file.kind = "unreadable" -> [err |-> "reading", c |-> None]
      [] file.kind = "unparsable" -> [err |-> "parsing", c |-> None]
      [] OTHER -> [err |-> "nil",
                   c |-> [ICMP |-> file.ICMP, MTR |-> file.MTR, TCP |-> file.TCP,
                          HTTPGet |-> file.HTTPGet, Targets |-> file.Targets]]

\* defaults.Set on one field: a field left at its zero value gets the
\* value of its default tag.
SetDefault(v, d) == IF v = 0 THEN d ELSE v

\* defaults.Set(c), line 111, with the default tags of lines 31-52 (seconds).
SetDefaults(cfg) ==
    [cfg EXCEPT
        !.ICMP = [Interval |-> SetDefault(@.Interval, 5),
                  Timeout |-> SetDefault(@.Timeout, 4),
                  Count |-> SetDefault(@.Count, 10)],
        !.MTR = [Interval |-> SetDefault(@.Interval, 5),
                 Timeout |-> SetDefault(@.Timeout, 4),
                 MaxHops |-> SetDefault(@.MaxHops, 30),
                 Count |-> SetDefault(@.Count, 10)],
        !.TCP = [Interval |-> SetDefault(@.Interval, 5),
                 Timeout |-> SetDefault(@.Timeout, 4)],
        !.HTTPGet = [Interval |-> SetDefault(@.Interval, 15),
                     Timeout |-> SetDefault(@.Timeout, 14)]]

\* Lines 148-153 and 167-172: the loop over the probe list appends the target
\* once for every element equal to the hostname (continue goes on with the
\* next element of the probe list).
RECURSIVE AppendPerProbe(_, _, _)
AppendPerProbe(t, list, i) ==
    IF i > Len(list) THEN <<>>
    ELSE (IF list[i] = hostname THEN <<t>> ELSE <<>>)
         \o AppendPerProbe(t, list, i + 1)

\* Lines 145-154 and 164-173: what one target adds to targets.
ProbeFilter(t) ==
    IF t.Probe.nil THEN <<t>> ELSE AppendPerProbe(t, t.Probe.list, 1)

\* Lines 139-155: one sub target per host of the SRV record.
RECURSIVE SrvTargets(_, _, _)
SrvTargets(t, hosts, i) ==
    IF i > Len(hosts) THEN <<>>
    ELSE ProbeFilter([t EXCEPT !.Name = hosts[i], !.Host = hosts[i]])
         \o SrvTargets(t, hosts, i + 1)

\* Lines 119-174: the body of the loop over c.Targets.
ResolveTarget(t) ==
    IF SrvRecordCheck(t.Host)
    THEN IF ~ReMatchString(t.Type) THEN <<>>
         ELSE IF t.Type = sTCP /\ ~EqualFold(t.Type, SrvProto(t.Host)) THEN <<>>
         ELSE LET srv == SrvRecordHosts(t.Host) IN
              IF srv.err THEN <<>> ELSE SrvTargets(t, srv.hosts, 1)
    ELSE IF ~ReMatchString(t.Type) THEN <<>>
         ELSE ProbeFilter(t)

\* Lines 116-175 with the loop left at the first record that adds nothing.
RECURSIVE FilterTargetsBreak(_, _)
FilterTargetsBreak(ts, i) ==
    IF i > Len(ts) THEN <<>>
    ELSE IF ResolveTarget(ts[i]) = <<>> THEN <<>>
    ELSE ResolveTarget(ts[i]) \o FilterTargetsBreak(ts, i + 1)

\* Lines 116-175: targets after the loop.
RECURSIVE FilterTargets(_, _)
FilterTargets(ts, i) ==
    IF i > Len(ts) THEN <<>>
    ELSE ResolveTarget(ts[i]) \o FilterTargets(ts, i + 1)

\* The map tmp of HasDuplicateTargets, lines 228-233.
EmptyTmp == [k \in {sTCP, sICMP, sMTR, sHTTPGet} |-> {}]

\* HasDuplicateTargets where ICMP+MTR is looked up and entered in the MTR
\* namespace only.
RECURSIVE DupScanMtrOnly(_, _, _)
DupScanMtrOnly(m, i, tmp) ==
    IF i > Len(m) THEN "ok"
    ELSE LET t == m[i] IN
         IF t.Type = sICMPMTR
         THEN IF t.Name \in tmp[sMTR] THEN "dup"
              ELSE DupScanMtrOnly(m, i + 1, [tmp EXCEPT ![sMTR] = @ \cup {t.Name}])
         ELSE IF t.Type \notin DOMAIN tmp THEN "panic"
         ELSE IF t.Name \in tmp[t.Type] THEN "dup"
         ELSE DupScanMtrOnly(m, i + 1, [tmp EXCEPT ![t.Type] = @ \cup {t.Name}])

HasDuplicateTargetsMtrOnly(m) == DupScanMtrOnly(m, 1, EmptyTmp)

\* Lines 235-252: the loop of HasDuplicateTargets. For a type that is no key
\* of tmp, tmp[t.Type] is a nil map: reading it gives false, and the
\* assignment of line 249 panics.
RECURSIVE DupScan(_, _, _)
DupScan(m, i, tmp) ==
    IF i > Len(m) THEN "ok"
    ELSE LET t == m[i] IN
         IF t.Type = sICMPMTR
         THEN IF t.Name \in tmp[sMTR] THEN "dup"
              ELSE IF t.Name \in tmp[sICMP] THEN "dup"
              ELSE DupScan(m, i + 1, [tmp EXCEPT ![sMTR] = @ \cup {t.Name},
                                                 ![sICMP] = @ \cup {t.Name}])
         ELSE IF t.Type \notin DOMAIN tmp THEN "panic"
         ELSE IF t.Name \in tmp[t.Type] THEN "dup"
         ELSE DupScan(m, i + 1, [tmp EXCEPT ![t.Type] = @ \cup {t.Name}])

\* HasDuplicateTargets, lines 227-253: "dup" is (true, error), "ok" is
\* (false, nil).
HasDuplicateTargets(m) == DupScan(m, 1, EmptyTmp)

\* Lines 185-193 with 65500 itself refused.
PrecheckExclusive(cfg) ==
    IF \/ cfg.ICMP.Interval <= 0 \/ cfg.MTR.Interval <= 0
       \/ cfg.TCP.Interval <= 0 \/ cfg.HTTPGet.Interval <= 0
    THEN "intervals"
    ELSE IF cfg.MTR.MaxHops < 0 \/ cfg.MTR.MaxHops >= 65500 THEN "max-hops"
    ELSE IF cfg.MTR.Count < 0 \/ cfg.MTR.Count >= 65500 THEN "count"
    ELSE "nil"

\* Lines 184-193: the config precheck.
Precheck(cfg) ==
    IF \/ cfg.ICMP.Interval <= 0 \/ cfg.MTR.Interval <= 0
       \/ cfg.TCP.Interval <= 0 \/ cfg.HTTPGet.Interval <= 0
    THEN "intervals"
    ELSE IF cfg.MTR.MaxHops < 0 \/ cfg.MTR.MaxHops > 65500 THEN "max-hops"
    ELSE IF cfg.MTR.Count < 0 \/ cfg.MTR.Count > 65500 THEN "count"
    ELSE "nil"

\* Lines 180-193: the error ReloadConfig returns for the remapped c, "nil"
\* for none, "panic" when HasDuplicateTargets panics.
Validate(cfg) ==
    LET dup == HasDuplicateTargets(cfg.Targets) IN
    IF dup = "dup" THEN "duplicate"
    ELSE IF dup = "panic" THEN "panic"
    ELSE Precheck(cfg)

InitConfig ==
    /\ confFile \in Files
    /\ Cfg = None
    /\ c = None
    /\ err = "none"
    /\ targets = <<>>
    /\ reloads = 0

\* ReloadConfig with sc.Cfg assigned right after the remap of line 178.
ReloadConfigEarlyPublish ==
    /\ reloads < MaxReloads
    /\ err # "panic"
    /\ reloads' = reloads + 1
    /\ LET d == Decode(confFile) IN
       IF d.err # "nil"
       THEN /\ c' = None
            /\ targets' = <<>>
            /\ err' = d.err
            /\ Cfg' = Cfg
       ELSE LET c0 == SetDefaults(d.c)
                ts == FilterTargets(c0.Targets, 1)
                c1 == [c0 EXCEPT !.Targets = ts]
            IN  /\ c' = c0
                /\ targets' = ts
                /\ err' = Validate(c1)
                /\ Cfg' = c1
    /\ UNCHANGED confFile
    /\ UNCHANGED schedVars

\* ReloadConfig, lines 93-200. A panic ends the process.
ReloadConfig ==
    /\ reloads < MaxReloads
    /\ err # "panic"
    /\ reloads' = reloads + 1
    /\ LET d == Decode(confFile) IN
       IF d.err # "nil"
       THEN /\ c' = None
            /\ targets' = <<>>
            /\ err' = d.err
            /\ Cfg' = Cfg
       ELSE LET c0 == SetDefaults(d.c)
                ts == FilterTargets(c0.Targets, 1)
                c1 == [c0 EXCEPT !.Targets = ts]
                e == Validate(c1)
            IN  /\ c' = c0
                /\ targets' = ts
                /\ err' = e
                /\ Cfg' = IF e = "nil" THEN c1 ELSE Cfg
    /\ UNCHANGED confFile
    /\ UNCHANGED schedVars

\* The file at confFile is replaced between two calls of ReloadConfig.
WriteConfFile ==
    /\ reloads < MaxReloads
    /\ err # "panic"
    /\ \E f \in Rewrites \ {confFile} : confFile' = f
    /\ UNCHANGED <<Cfg, c, err, targets, reloads>>
    /\ UNCHANGED schedVars

\* =========================================================================
\* Specifications
\* =========================================================================



NextPing ==
    \/ RunStart
    \/ RunDelayElapsed
    \/ RunDelayStopped
    \/ RunSelectStop
    \/ RunSelectTick
    \/ RunAcquire
    \/ RunSpawn
    \/ RunStopTicker
    \/ RunDone
    \/ \E j \in Jobs : JobPing(j)
    \/ \E j \in Jobs : JobLock(j)
    \/ \E j \in Jobs : JobMerge(j)
    \/ \E j \in Jobs : JobUnlock(j)
    \/ \E j \in Jobs : JobRelease(j)
    \/ StopClose
    \/ StopReturn
    \/ Compute

\* The scheduler of one target, from NewPing on.
InitSpecPing ==
    /\ InitPing
    /\ confFile = Unreadable
    /\ Cfg = None
    /\ c = None
    /\ err = "none"
    /\ targets = <<>>
    /\ reloads = 0

SpecPing == InitSpecPing /\ [][NextPing]_vars

\* The steps of the run goroutine and of the caller of Stop(), without those of
\* the probe goroutines.
LoopStep ==
    \/ RunStart
    \/ RunDelayElapsed
    \/ RunDelayStopped
    \/ RunSelectStop
    \/ RunSelectTick
    \/ RunAcquire
    \/ RunSpawn
    \/ RunStopTicker
    \/ RunDone
    \/ StopReturn

\* The scheduler when ping.Ping may also return an error without a result.
NextPingNil ==
    \/ NextPing
    \/ \E j \in Jobs : JobPingNil(j)
    \/ \E j \in Jobs : JobMergePanic(j)

SpecPingNil == InitSpecPing /\ [][NextPingNil]_vars

\* The scheduler when Stop() is called a second time.
NextPingStopTwice ==
    \/ NextPing
    \/ StopAgain

SpecPingStopTwice == InitSpecPing /\ [][NextPingStopTwice]_vars

\* The steps of a probe goroutine after ping.Ping has returned.
ProbeStep ==
    \E j \in Jobs : JobLock(j) \/ JobMerge(j) \/ JobUnlock(j) \/ JobRelease(j)

\* The scheduler with the Go scheduler running every goroutine that can take
\* a step: the run goroutine, the caller of Stop(), and the probe goroutines
\* once ping.Ping has returned. Nothing is assumed of ping.Ping itself, which
\* may never return.
SpecPingLoopFair ==
    InitSpecPing /\ [][NextPing]_vars /\ WF_vars(LoopStep) /\ WF_vars(ProbeStep)


NextConfig ==
    \/ ReloadConfig
    \/ WriteConfFile

\* The safe configuration over a sequence of reloads; no scheduler steps.
InitSpecConfig ==
    /\ InitConfig
    /\ InitPing
    /\ startupDelay = 0

SpecConfig == InitSpecConfig /\ [][NextConfig]_vars

\* =========================================================================
\* Properties of the scheduler (under SpecPing)
\* =========================================================================

\* C1: after Stop() has returned, the cumulative result is never mutated
\* again: whenever Compute() can read, it reads the value that the first
\* Compute() after the return of Stop() read.
C1_ResultFrozenAfterStop ==
    (snap # None /\ mu = 0) => objs[result] = snap

\* C2: at most MaxConcurrentJobs probe executions are in flight, and the
\* gate holds exactly one slot per execution in flight (plus the slot the
\* loop has taken for the execution it is about to start): a slot is taken
\* once per launch and given back once, after the merge.
C2_GateBoundsInFlight ==
    /\ Cardinality(InFlight) <= MaxConcurrentJobs
    /\ waitChan = Cardinality(InFlight) + (IF runPc = "spawn" THEN 1 ELSE 0)

\* C2, witness: the gate is full and the loop waits for a slot.
C2_GateFull ==
    /\ Cardinality(InFlight) = MaxConcurrentJobs
    /\ runPc = "acquire"

\* C10: when Stop() has returned, the loop has stopped its ticker and
\* returned, and no probe execution is launched from then on.
C10_StopWaitsForLoop ==
    /\ [](stopPc = "returned" => (runPc = "exited" /\ ticker = "stopped"))
    /\ [][stopPc = "returned" => launched' = launched]_vars

\* C10, witness: Stop() has returned while a probe execution is in flight.
C10_StopReturnedWithProbeInFlight ==
    /\ stopPc = "returned"
    /\ InFlight # {}

\* =========================================================================
\* Properties of the configuration reload (under SpecConfig)
\* =========================================================================

\* The last ReloadConfig call decoded its file.
Decoded == c # None

\* The records of the file the last call read, after defaults.Set.
Records == DOMAIN c.Targets

\* The probe list names the running host.
NamesHostname(t) == \E k \in DOMAIN t.Probe.list : t.Probe.list[k] = hostname

\* The record passes the probe assignment filter as specified: its list is
\* empty (omitted or not) or names the running host.
Admitted(t) == Len(t.Probe.list) = 0 \/ NamesHostname(t)

\* The SRV name of a record is looked up and answers.
Expands(t) ==
    /\ SrvRecordCheck(t.Host)
    /\ ~(t.Type = sTCP /\ ~EqualFold(sTCP, SrvProto(t.Host)))
    /\ ~SrvRecordHosts(t.Host).err

\* The sub target of record t for the discovered host h.
SubTarget(t, h) == [t EXCEPT !.Name = h, !.Host = h]

\* Number of entries of the resolved list equal to x.
Entries(x) == Cardinality({n \in DOMAIN targets : targets[n] = x})

\* Record t is in the resolved set.
Kept(t) ==
    IF SrvRecordCheck(t.Host)
    THEN \E k \in DOMAIN SrvRecordHosts(t.Host).hosts :
            Entries(SubTarget(t, SrvRecordHosts(t.Host).hosts[k])) > 0
    ELSE Entries(t) > 0

\* C3: a record whose type is not one of the five type strings is dropped
\* without failing the reload, so the duplicate check sees, and a published
\* configuration holds, targets of those five types only.
C3_OnlyValidTypesSurvive ==
    /\ Decoded =>
         /\ err # "panic"
         /\ \A n \in DOMAIN targets : targets[n].Type \in ValidTypes
    /\ Cfg # None =>
         \A n \in DOMAIN Cfg.Targets : Cfg.Targets[n].Type \in ValidTypes

\* C4: a record of a valid type is kept if and only if its probe list is
\* empty, omitted or given as an empty list, or names the running host.
C4_KeptIffAdmitted ==
    Decoded =>
      \A i \in Records :
        LET t == c.Targets[i] IN
        (t.Type \in ValidTypes /\ (SrvRecordCheck(t.Host) => Expands(t)))
          => (Kept(t) <=> Admitted(t))

\* C5: a record of a valid type with a literal host whose probe list admits
\* it (here: is omitted or names the running host, at one or at several
\* positions) has exactly one entry in the resolved list, equal to it.
C5_LiteralHostOneEntry ==
    Decoded =>
      \A i \in Records :
        LET t == c.Targets[i] IN
        ( /\ t.Type \in ValidTypes
          /\ ~SrvRecordCheck(t.Host)
          /\ (t.Probe.nil \/ NamesHostname(t))
          /\ \A j \in Records \ {i} : c.Targets[j] # t )
          => Entries(t) = 1

\* The namespaces of the duplicate check that a type occupies.
Namespaces(ty) == IF ty = sICMPMTR THEN {sICMP, sMTR} ELSE {ty}

\* Two entries of m have one name and share a namespace.
SharesNamespace(m) ==
    \E i, j \in DOMAIN m :
        /\ i < j
        /\ m[i].Name = m[j].Name
        /\ Namespaces(m[i].Type) \cap Namespaces(m[j].Type) # {}

\* C6: for a resolved list of valid types, in any order, the reload fails
\* with the duplicate error if and only if two entries have the same name
\* and share one of the namespaces ICMP, MTR, TCP, HTTPGet, ICMP+MTR being
\* in both ICMP and MTR.
C6_DuplicateIffSharedNamespace ==
    (Decoded /\ \A n \in DOMAIN targets : targets[n].Type \in ValidTypes)
      => ((err = "duplicate") <=> SharesNamespace(targets))

\* C6, witness: an ICMP+MTR target and a later ICMP target of the same name
\* made the reload fail.
C6_CompoundConflictsWithICMP ==
    /\ Decoded
    /\ err = "duplicate"
    /\ Len(targets) = 2
    /\ targets[1].Type = sICMPMTR
    /\ targets[2].Type = sICMP
    /\ targets[1].Name = targets[2].Name

\* C7: a ReloadConfig call that returns an error (or panics) leaves sc.Cfg
\* as it was; sc.Cfg changes only in a call that returns nil, and then to
\* the whole remapped c of that call.
C7_FailedReloadKeepsCfg ==
    [][ /\ (reloads' # reloads /\ err' # "nil") => Cfg' = Cfg
        /\ Cfg' # Cfg =>
             /\ reloads' = reloads + 1
             /\ err' = "nil"
             /\ Cfg' = [c' EXCEPT !.Targets = targets'] ]_vars

\* C7, witness: a reload has failed on a duplicate target after an earlier
\* one had published a configuration.
C7_FailureAfterSuccess ==
    /\ Cfg # None
    /\ reloads = 2
    /\ err = "duplicate"

\* The sanity bounds on a configuration.
IntervalsPositive(cfg) ==
    /\ cfg.ICMP.Interval > 0
    /\ cfg.MTR.Interval > 0
    /\ cfg.TCP.Interval > 0
    /\ cfg.HTTPGet.Interval > 0

InBounds(v) == v \in 0..65500

\* C8: a reload that passed the duplicate check fails if and only if an
\* interval is not positive or MTR max-hops or count is outside 0..65500;
\* max-hops 70000 fails and max-hops 30 with the rest in bounds succeeds;
\* a published configuration satisfies all the bounds.
C8_SanityBounds ==
    /\ (Decoded /\ err \notin {"duplicate", "panic"}) =>
         /\ (err # "nil") <=> ~( /\ IntervalsPositive(c)
                                 /\ InBounds(c.MTR.MaxHops)
                                 /\ InBounds(c.MTR.Count) )
         /\ c.MTR.MaxHops = 70000 => err = "max-hops"
         /\ (c.MTR.MaxHops = 30 /\ IntervalsPositive(c) /\ InBounds(c.MTR.Count))
              => err = "nil"
    /\ Cfg # None =>
         /\ IntervalsPositive(Cfg)
         /\ InBounds(Cfg.MTR.MaxHops)
         /\ InBounds(Cfg.MTR.Count)

\* C8, witness: max-hops 70000 is refused while the configuration published
\* before, with max-hops 30, stays.
C8_MaxHopsRefused ==
    /\ Decoded
    /\ err = "max-hops"
    /\ c.MTR.MaxHops = 70000
    /\ Cfg # None
    /\ Cfg.MTR.MaxHops = 30

\* C9: the only record of a file with an SRV host, of a valid type, whose
\* name answers with N hosts and whose probe list admits it (here: is
\* omitted or names the running host) has exactly N entries in the
\* resolved list, one per discovered host, each the record renamed and
\* rehosted to that host.
C9_SrvRecordOneEntryPerHost ==
    Decoded =>
      \A i \in Records :
        LET t == c.Targets[i]
            hosts == SrvRecordHosts(t.Host).hosts
        IN  ( /\ t.Type \in ValidTypes
              /\ Expands(t)
              /\ (t.Probe.nil \/ NamesHostname(t))
              /\ \A j \in Records \ {i} : ~SrvRecordCheck(c.Targets[j].Host) )
            => /\ \A k \in DOMAIN hosts : Entries(SubTarget(t, hosts[k])) = 1
               /\ Cardinality({n \in DOMAIN targets :
                     \E k \in DOMAIN hosts : targets[n].Host = hosts[k]})
                    = Len(hosts)

\* ------------------------------------------------------------------- C11

\* The probe goroutines whose merge (lines 102-105) has completed.
Merged == {j \in Jobs : jobPc[j] \in {"unlock", "release", "done"}}

RECURSIVE SumWindows(_)
\* The sums of the values ping.Ping returned to the goroutines of S.
SumWindows(S) ==
    IF S = {} THEN [SntSummary |-> 0, SntFailSummary |-> 0, SntTimeSummary |-> 0]
    ELSE LET j == CHOOSE x \in S : TRUE
             r == SumWindows(S \ {j})
         IN  [SntSummary |-> r.SntSummary + window[j].SntSummary,
              SntFailSummary |-> r.SntFailSummary + window[j].SntFailSummary,
              SntTimeSummary |-> r.SntTimeSummary + window[j].SntTimeSummary]

\* The three cumulative counters of the stored result.
Counters(r) == [SntSummary |-> r.SntSummary, SntFailSummary |-> r.SntFailSummary,
                SntTimeSummary |-> r.SntTimeSummary]

\* C11: under any interleaving of overlapping probe executions, each
\* cumulative counter of the stored result is the sum of the windowed values
\* returned to exactly the executions whose merge has completed; no step
\* lowers a counter, and a completed merge raises the sent counter by that
\* cycle's own send count.
C11_CountersAreSumOfMergedWindows ==
    /\ [](Counters(objs[result]) = SumWindows(Merged))
    /\ [][/\ objs'[result'].SntSummary >= objs[result].SntSummary
          /\ objs'[result'].SntFailSummary >= objs[result].SntFailSummary
          /\ objs'[result'].SntTimeSummary >= objs[result].SntTimeSummary
          /\ \A j \in Jobs :
                (jobPc[j] = "merge" /\ jobPc'[j] = "unlock") =>
                    objs'[result'].SntSummary =
                        objs[result].SntSummary + window[j].SntSummary]_vars

\* Two merges have completed while a third execution, which overlapped them,
\* has its result and waits for the lock.
C11_OverlappingMerges ==
    /\ Cardinality(Merged) >= 2
    /\ \E j \in Jobs : jobPc[j] = "lock"
    /\ objs[result].SntSummary = 2

\* ------------------------------------------------------------------- C12

\* The probe goroutines that have made their request to the allocator.
Requested == {j \in Jobs : jobPc[j] \notin {"idle", "ping"}}

C13_NoLaunchAfterStop ==
    [][stop => launched' = launched]_vars

\* ------------------------------------------------------------------- C14

\* C14: once Stop() has been called it eventually returns, with the loop
\* taking its own steps and whatever the probe executions in flight do.
C14_StopEventuallyReturns ==
    (stopPc = "wait") ~> (stopPc = "returned")

\* ------------------------------------------------------------------- C15

\* The record is dropped by one of the continue statements of the loop: its
\* type fails the type test (lines 120, 157), it is a TCP target whose SRV
\* name has another protocol (line 127), the lookup of its SRV name fails
\* (line 134), or its probe list is given and does not name the running host
\* (lines 145-153, 164-172).
Dropped(t) ==
    \/ ~ReMatchString(t.Type)
    \/ SrvRecordCheck(t.Host) /\ t.Type = sTCP /\ ~EqualFold(sTCP, SrvProto(t.Host))
    \/ SrvRecordCheck(t.Host) /\ SrvRecordHosts(t.Host).err
    \/ ~t.Probe.nil /\ ~NamesHostname(t)

\* The list ts without its i-th record.
RemoveAt(ts, i) == SubSeq(ts, 1, i - 1) \o SubSeq(ts, i + 1, Len(ts))

\* Lines 116-193 for a decoded configuration: the resolved list and the
\* error returned.
Outcome(cfg) ==
    LET ts == FilterTargets(cfg.Targets, 1)
    IN  [targets |-> ts, err |-> Validate([cfg EXCEPT !.Targets = ts])]

C16_ProbeErrorIsNotFatal ==
    /\ panic = "none"
    /\ Counters(objs[result]) = SumWindows({j \in Merged : window[j] # None})

\* ------------------------------------------------------------------- C17

\* C17: when the closed stop channel has ended the startup delay, no probe
\* execution is ever launched and the stored result keeps its initial value;
\* and while a positive startup delay has neither elapsed nor been
\* interrupted, no probe execution has been launched.
C17_StopDuringDelayLaunchesNothing ==
    /\ delayBy = "stopped" => (launched = 0 /\ objs[result] = ZeroResult)
    /\ (startupDelay > 0 /\ delayBy = "none") => launched = 0

\* ------------------------------------------------------------------- C18

\* The objects that are or have been the stored result, which a call of
\* Compute() may have returned: the one of NewPing and those of the merged
\* executions.
Published == {0} \cup Merged

\* C18: Compute() reads under the lock, so outside a merge, and returns a
\* published object; no step, of a later or of a concurrent merge, changes a
\* published object, so the value a reader holds stays the one returned.
C18_PublishedResultNeverModified ==
    /\ [](mu = 0 => (result \in Published /\ objs[result] # None))
    /\ [][\A o \in Published : objs'[o] = objs[o]]_vars

\* C18, witness: the object of the first merge, which a reader may hold, has
\* been replaced by that of a second merge and still has its own counters,
\* while a third execution is about to merge.
C18_SupersededObjectKeepsValue ==
    \E o \in Merged :
        /\ o # result
        /\ objs[o].SntSummary = 1
        /\ objs[result].SntSummary = 2
        /\ \E j \in Jobs : jobPc[j] = "merge"

\* ------------------------------------------------------------------- C19

\* C19: with every ping.Ping returning a result, the stored result is never
\* nil, a call of Compute() never returns nil, and as long as no merge has
\* completed it returns the result of NewPing with all counters zero.
C19_ComputeNeverNil ==
    /\ objs[result] # None
    /\ mu = 0 => ComputeResult # None
    /\ (mu = 0 /\ Merged = {}) => ComputeResult = ZeroResult

\* C19, witness: a Compute() made with an execution in flight and none
\* merged returned the zero result.
C19_ZeroResultBeforeFirstMerge ==
    /\ snap = ZeroResult
    /\ Merged = {}
    /\ InFlight # {}

\* ------------------------------------------------------------------- C20

\* C20: the first call of Stop() returns only after the loop has signalled
\* completion, which it does once (the counter of t.wg goes from 1 to 0 and
\* no further); a second call, made while the first waits or after it has
\* returned, finds the channel closed and panics: it never gets to wait or to
\* return.
C20_SecondStopPanics ==
    /\ wg \in {0, 1}
    /\ stopPc = "returned" => (wg = 0 /\ runPc = "exited")
    /\ stopPc # "idle" => stop
    /\ stop2Pc # "idle" =>
         (stop2Pc = "panicked" /\ panic = "close of closed channel")

\* C20, witness: a second call made after the first had returned has
\* panicked.
C20_SecondStopAfterReturn ==
    /\ stopPc = "returned"
    /\ stop2Pc = "panicked"
    /\ panic = "close of closed channel"

====
